---- MODULE Spec2Model ----
(***************************************************************************)
(* rustycubes (src/src/lib.rs): the window / GPU-surface lifecycle and the  *)
(* winit application handler that drives it.                                *)
(*                                                                          *)
(* The handlers run one at a time on the event-loop thread, so every        *)
(* handler is one atomic action.  A handler is written as an operator from  *)
(* a "world" record (the Application, the event loop's exit flag and the    *)
(* platform resources the handler touches) to the world it leaves behind;   *)
(* the calls it makes on the window, the surface, the queue and the event   *)
(* loop are appended, in program order, to the world's call trace.          *)
(***************************************************************************)
EXTENDS Integers, Sequences, FiniteSets, TLC

(* ------------------------------ bounds -------------------------------- *)

\* Window dimensions range over 0..MaxDim (0 is a minimised window).
MaxDim == 2
\* Windows the platform creates over a run (one per "resumed").
MaxWindows == 2
\* Instance::enumerate_adapters returns 0..MaxAdapters adapters.
MaxAdapters == 1

(* --------------------------- value domains ---------------------------- *)

WindowIds == 1..MaxWindows

Size(w, h) == [width |-> w, height |-> h]
Sizes == {Size(w, h) : w \in 0..MaxDim, h \in 0..MaxDim}
\* Window::inner_size() of a window just created: with_inner_size is a
\* request the platform may not honour, so any size, 0 x 0 included.
InnerSizes == Sizes

\* What the platform and the GPU answer while a pair is built:
\*   window    create_window returns Ok
\*   surface   create_surface returns Ok
\*   adapters  how many adapters enumerate_adapters lists
\*   suitable  one of them passes is_surface_supported
\*   device    request_device returns Ok
\*   formats   the surface's capabilities list a format, a present mode and
\*             an alpha mode
Platform(window, surface, adapters, suitable, device, formats) ==
    [window |-> window, surface |-> surface, adapters |-> adapters,
     suitable |-> suitable, device |-> device, formats |-> formats]
\* The answers that differ in what GfxState::new gets to ask: an answer it
\* never asks for is left at FALSE (0 adapters).
Platforms ==
    {Platform(FALSE, FALSE, 0, FALSE, FALSE, FALSE),
     Platform(TRUE, FALSE, 0, FALSE, FALSE, FALSE)}
        \cup {Platform(TRUE, TRUE, n, FALSE, FALSE, FALSE) : n \in 0..MaxAdapters}
        \cup {Platform(TRUE, TRUE, n, TRUE, FALSE, FALSE) : n \in 1..MaxAdapters}
        \cup {Platform(TRUE, TRUE, n, TRUE, TRUE, FALSE) : n \in 1..MaxAdapters}
        \cup {Platform(TRUE, TRUE, n, TRUE, TRUE, TRUE) : n \in 1..MaxAdapters}

\* Option<T>
None == <<>>
Some(x) == <<x>>
IsSome(o) == o # None
Unwrap(o) == o[1]

\* The outcomes of Surface::get_current_texture: a texture, or a
\* wgpu::SurfaceError.
SurfaceErrors == {"Timeout", "Outdated", "Lost", "OutOfMemory", "Other"}
AcquireResults == {"Ok"} \cup SurfaceErrors

\* winit::event::WindowEvent, the variants the handler tells apart and one
\* it does not (Focused).
Ev(kind) == [kind |-> kind, key |-> "", key_state |-> "", size |-> Size(0, 0)]
KeyboardInput(key, st) == [Ev("KeyboardInput") EXCEPT !.key = key, !.key_state = st]
Resized(s) == [Ev("Resized") EXCEPT !.size = s]
KeyCodes == {"Escape", "KeyA"}
ElementStates == {"Pressed", "Released"}
WindowEvents ==
    {Ev("CloseRequested"), Ev("ScaleFactorChanged"), Ev("RedrawRequested"), Ev("Focused")}
        \cup {KeyboardInput(k, s) : k \in KeyCodes, s \in ElementStates}
        \cup {Resized(s) : s \in Sizes}

(* ------------------------------ calls --------------------------------- *)

\* One call a handler makes: its name, its integer arguments, and what it
\* returned (or, for a log call, the level).
Call(op, args, ret) == [op |-> op, args |-> args, ret |-> ret]
Do(W, op, args, ret) == [W EXCEPT !.ops = Append(@, Call(op, args, ret))]
Log(W, level) == Do(W, "log", <<>>, level)
\* The same log call made n times in a row (a loop over n items).
LogEach(W, level, n) ==
    [W EXCEPT !.ops = @ \o [i \in 1..n |-> Call("log", <<>>, level)]]
\* Entering one of the manager's operations, with its integer arguments.
Enter(W, op, args) == Do(W, op, args, "")

\* panic!(..): the handler is left by unwinding.
Panic(W) == [W EXCEPT !.panicked = TRUE]

(* ------------------------------ Arc<Window> --------------------------- *)

\* Arc::new(event_loop.create_window(..)): the platform window w comes to
\* life with one strong reference.
ArcNew(W, w) ==
    Do([W EXCEPT !.strong[w] = 1, !.windows = @ \cup {w}], "create_window", <<w>>, "")

ArcClone(W, w) == [W EXCEPT !.strong[w] = @ + 1]

\* Dropping one Arc<Window>: the last one drops the Window itself, and a
\* window that is gone has no redraw pending.
ArcDrop(W, w) ==
    IF W.strong[w] = 1
    THEN Do([W EXCEPT !.strong[w] = 0, !.windows = @ \ {w},
                      !.redraw_requested = @ \ {w}], "drop_window", <<w>>, "")
    ELSE [W EXCEPT !.strong[w] = @ - 1]

(* ------------------------------ GfxState ------------------------------ *)

\* The manager of the live pair (only used where state is Some).
Gfx(W) == Unwrap(W.state).gfx_state

\* wgpu::Surface::configure(&device, &config)
Configure(W, w, config) ==
    Do([W EXCEPT !.configured[w] = Size(config.width, config.height)], "configure",
       <<config.width, config.height>>, "")

\* Dropping a wgpu::Surface: it lets go of its Arc<Window>.
DropSurface(W, w) ==
    ArcDrop(Do([W EXCEPT !.surfaces = @ \ {w}, !.configured[w] = Size(0, 0)],
               "drop_surface", <<w>>, ""),
            w)

\* GfxState::new with a surface made from the bare window handle, which
\* keeps no Arc of its own.
GfxStateNew_NoClone(W, w, inner_size, gpu) ==
    LET size == inner_size
        W1 == Do([W EXCEPT !.surfaces = @ \cup {w}], "create_surface", <<w>>, "")
        W2 == LogEach(W1, "info", gpu.adapters)
        W3 == Log(W2, "info")
        config == Size(size.width, size.height)
        W4 == Configure(W3, w, config)
        Unwound(V) ==
            [world |-> Panic(ArcDrop(Do([V EXCEPT !.surfaces = @ \ {w},
                                                  !.configured[w] = Size(0, 0)],
                                        "drop_surface", <<w>>, ""), w)),
             self  |-> None]
    IN  CASE ~gpu.surface -> [world |-> Panic(ArcDrop(W, w)), self |-> None]
          [] gpu.surface /\ ~gpu.suitable -> Unwound(W2)
          [] gpu.surface /\ gpu.suitable /\ ~(gpu.device /\ gpu.formats) -> Unwound(W3)
          [] gpu.surface /\ gpu.suitable /\ gpu.device /\ gpu.formats
                /\ (config.width = 0 \/ config.height = 0) -> Unwound(W3)
          [] OTHER ->
                [world |-> ArcDrop(W4, w),
                 self  |-> [surface |-> w, config |-> config, size |-> size]]

\* GfxState::new(window): takes one Arc by value, gives a clone of it to the
\* surface, logs every adapter and then the one it picked, configures the
\* surface at the window's inner size and drops its own Arc on return.
\* Each expect, unwrap and index on the way panics when the platform's
\* answer is missing, and so does Surface::configure when the width or the
\* height is 0; unwinding drops the surface, if made, and then the Arc.
GfxStateNew(W, w, inner_size, gpu) ==
    LET size == inner_size
        W1 == Do([ArcClone(W, w) EXCEPT !.surfaces = @ \cup {w}],
                 "create_surface", <<w>>, "")
        W2 == LogEach(W1, "info", gpu.adapters)
        W3 == Log(W2, "info")
        config == Size(size.width, size.height)
        W4 == Configure(W3, w, config)
        Unwound(V) == [world |-> Panic(ArcDrop(DropSurface(V, w), w)), self |-> None]
    IN  CASE ~gpu.surface -> [world |-> Panic(ArcDrop(W, w)), self |-> None]
          [] gpu.surface /\ ~gpu.suitable -> Unwound(W2)
          [] gpu.surface /\ gpu.suitable /\ ~(gpu.device /\ gpu.formats) -> Unwound(W3)
          [] gpu.surface /\ gpu.suitable /\ gpu.device /\ gpu.formats
                /\ (config.width = 0 \/ config.height = 0) -> Unwound(W3)
          [] OTHER ->
                [world |-> ArcDrop(W4, w),
                 self  |-> [surface |-> w, config |-> config, size |-> size]]

\* resize with config.height taken from the width (a slip of the pen).
resize_HeightFromWidth(W, new_size) ==
    IF new_size.width > 0 /\ new_size.height > 0
    THEN LET W1 == [Enter(W, "resize", <<new_size.width, new_size.height>>) EXCEPT
                             !.state[1].gfx_state.size = new_size,
                             !.state[1].gfx_state.config.width = new_size.width,
                             !.state[1].gfx_state.config.height = new_size.width]
         IN  Configure(W1, Gfx(W1).surface, Gfx(W1).config)
    ELSE Enter(W, "resize", <<new_size.width, new_size.height>>)

\* resize guarded by || instead of &&.
resize_EitherPositive(W, new_size) ==
    IF new_size.width > 0 \/ new_size.height > 0
    THEN LET W1 == [Enter(W, "resize", <<new_size.width, new_size.height>>) EXCEPT
                             !.state[1].gfx_state.size = new_size,
                             !.state[1].gfx_state.config.width = new_size.width,
                             !.state[1].gfx_state.config.height = new_size.height]
         IN  Configure(W1, Gfx(W1).surface, Gfx(W1).config)
    ELSE Enter(W, "resize", <<new_size.width, new_size.height>>)

\* resize updating size and config but not configuring the surface.
resize_NoConfigure(W, new_size) ==
    IF new_size.width > 0 /\ new_size.height > 0
    THEN [Enter(W, "resize", <<new_size.width, new_size.height>>) EXCEPT
                 !.state[1].gfx_state.size = new_size,
                 !.state[1].gfx_state.config.width = new_size.width,
                 !.state[1].gfx_state.config.height = new_size.height]
    ELSE Enter(W, "resize", <<new_size.width, new_size.height>>)

\* resize storing the new size but configuring the surface as it was.
resize_SizeOnly(W, new_size) ==
    IF new_size.width > 0 /\ new_size.height > 0
    THEN LET W1 == [Enter(W, "resize", <<new_size.width, new_size.height>>) EXCEPT !.state[1].gfx_state.size = new_size]
         IN  Configure(W1, Gfx(W1).surface, Gfx(W1).config)
    ELSE Enter(W, "resize", <<new_size.width, new_size.height>>)

\* resize without its guard.
resize_Unguarded(W, new_size) ==
    LET W1 == [Enter(W, "resize", <<new_size.width, new_size.height>>) EXCEPT
                         !.state[1].gfx_state.size = new_size,
                         !.state[1].gfx_state.config.width = new_size.width,
                         !.state[1].gfx_state.config.height = new_size.height]
    IN  Configure(W1, Gfx(W1).surface, Gfx(W1).config)

\* GfxState::resize
resize(W, new_size) ==
    IF new_size.width > 0 /\ new_size.height > 0
    THEN LET W1 == [Enter(W, "resize", <<new_size.width, new_size.height>>) EXCEPT !.state[1].gfx_state.size = new_size,
                             !.state[1].gfx_state.config.width = new_size.width,
                             !.state[1].gfx_state.config.height = new_size.height]
         IN  Configure(W1, Gfx(W1).surface, Gfx(W1).config)
    ELSE Enter(W, "resize", <<new_size.width, new_size.height>>)

\* GfxState::input
input(W, event) == FALSE

\* GfxState::update
update(W) == Enter(W, "update", <<>>)

\* LoadOp::Clear(Color { r: 0.1, g: 0.2, b: 0.3, a: 1.0 }), in tenths.
ClearColor == <<1, 2, 3, 10>>
\* render_pass.draw(0..3, 0..1): first vertex, end vertex, first instance,
\* end instance.
DrawRanges == <<0, 3, 0, 1>>

\* render presenting the image before the commands are submitted.
render_PresentBeforeSubmit(W, acq) ==
    LET w  == Gfx(W).surface
        W1 == Do(Enter(W, "render", <<>>), "get_current_texture",
                 <<W.configured[w].width, W.configured[w].height>>, acq)
    IN  IF acq # "Ok"
        THEN [world |-> W1, result |-> acq]
        ELSE LET W2 == Do(W1, "create_view", <<>>, "")
                 W3 == Do(W2, "create_command_encoder", <<>>, "")
                 W4 == Do(W3, "begin_render_pass", ClearColor, "")
                 W5 == Do(W4, "set_pipeline", <<>>, "")
                 W6 == Do(W5, "draw", DrawRanges, "")
                 W7 == Do(W6, "end_render_pass", <<>>, "")
                 W8 == Do(W7, "present", <<>>, "")
                 W9 == Do(W8, "submit", <<>>, "")
             IN  [world |-> W9, result |-> "Ok"]

\* render reporting success when the acquisition failed.
render_SwallowsError(W, acq) ==
    LET w  == Gfx(W).surface
        W1 == Do(Enter(W, "render", <<>>), "get_current_texture",
                 <<W.configured[w].width, W.configured[w].height>>, acq)
    IN  IF acq # "Ok"
        THEN [world |-> W1, result |-> "Ok"]
        ELSE LET W2 == Do(W1, "create_view", <<>>, "")
                 W3 == Do(W2, "create_command_encoder", <<>>, "")
                 W4 == Do(W3, "begin_render_pass", ClearColor, "")
                 W5 == Do(W4, "set_pipeline", <<>>, "")
                 W6 == Do(W5, "draw", DrawRanges, "")
                 W7 == Do(W6, "end_render_pass", <<>>, "")
                 W8 == Do(W7, "submit", <<>>, "")
                 W9 == Do(W8, "present", <<>>, "")
             IN  [world |-> W9, result |-> "Ok"]

\* GfxState::render, given what get_current_texture answers.  The texture
\* handed out has the size the surface was last configured with.
render(W, acq) ==
    LET w  == Gfx(W).surface
        W1 == Do(Enter(W, "render", <<>>), "get_current_texture",
                 <<W.configured[w].width, W.configured[w].height>>, acq)
    IN  IF acq # "Ok"
        THEN [world |-> W1, result |-> acq]
        ELSE LET W2 == Do(W1, "create_view", <<>>, "")
                 W3 == Do(W2, "create_command_encoder", <<>>, "")
                 W4 == Do(W3, "begin_render_pass", ClearColor, "")
                 W5 == Do(W4, "set_pipeline", <<>>, "")
                 W6 == Do(W5, "draw", DrawRanges, "")
                 W7 == Do(W6, "end_render_pass", <<>>, "")
                 W8 == Do(W7, "submit", <<>>, "")
                 W9 == Do(W8, "present", <<>>, "")
             IN  [world |-> W9, result |-> "Ok"]

\* Dropping a GfxState: its fields in declaration order.  The surface goes
\* first and lets go of its Arc<Window>; device, queue, config, size and
\* pipeline hold nothing of the window.
DropGfxState(W, gfx) == DropSurface(W, gfx.surface)

(* --------------------------- WindowGfxState --------------------------- *)

\* WindowGfxState::new(event_loop): the platform hands out window w, or
\* refuses and the expect panics.  A panic of GfxState::new unwinds through
\* here and drops the window just made.
WindowGfxStateNew(W, w, inner_size, gpu) ==
    IF ~gpu.window THEN [world |-> Panic(W), self |-> None]
    ELSE LET W1  == ArcNew([W EXCEPT !.next_id = @ + 1], w)
             new == CHOOSE y \in {GfxStateNew(ArcClone(W1, w), w, inner_size, gpu)} : TRUE
         IN  IF new.world.panicked
             THEN [world |-> ArcDrop(new.world, w), self |-> None]
             ELSE [world |-> new.world,
                   self  |-> [window |-> w, gfx_state |-> new.self]]

\* Dropping a WindowGfxState: window, then gfx_state.
DropWindowGfxState(W, st) == DropGfxState(ArcDrop(W, st.window), st.gfx_state)

(* ----------------------------- Application ---------------------------- *)

\* ActiveEventLoop::exit
Exit(W) == Do([W EXCEPT !.exit = TRUE], "exit", <<>>, "")

\* Window::request_redraw
RequestRedraw(W, w) ==
    Do([W EXCEPT !.redraw_requested = @ \cup {w}], "request_redraw", <<w>>, "")

\* resumed keeping the pair it already has.
resumed_KeepsExisting(W, inner_size, gpu) ==
    LET W1  == Log(W, "info")
        new == CHOOSE y \in {WindowGfxStateNew(W1, W1.next_id, inner_size, gpu)} : TRUE
        W2  == [new.world EXCEPT !.state = Some(new.self)]
    IN  IF IsSome(W.state) THEN W1
        ELSE IF new.world.panicked THEN new.world
        ELSE W2

\* Application::resumed.  The new pair is built first; the assignment then
\* drops the pair it replaces.  If building it panics there is no
\* assignment and self.state is as it was.
resumed(W, inner_size, gpu) ==
    LET W1  == Log(W, "info")
        new == CHOOSE y \in {WindowGfxStateNew(W1, W1.next_id, inner_size, gpu)} : TRUE
        W2  == [new.world EXCEPT !.state = Some(new.self)]
    IN  IF new.world.panicked THEN new.world
        ELSE IF IsSome(W.state) THEN DropWindowGfxState(W2, Unwrap(W.state))
        ELSE W2

\* The redraw arm without its SurfaceError::Lost case.
redraw_LostUnhandled(W, acq) ==
    LET W1 == update(Log(W, "info"))
        Arms(r) ==
              CASE r.result = "Ok" -> r.world
                [] r.result = "OutOfMemory" -> Exit(Log(r.world, "error"))
                [] OTHER -> Log(r.world, "error")
        W2 == CHOOSE y \in {Arms(r) : r \in {render(W1, acq)}} : TRUE
    IN  RequestRedraw(W2, Unwrap(W.state).window)

\* The redraw arm asking for the next redraw only after a frame that
\* rendered.
redraw_RequestOnlyOnOk(W, acq) ==
    LET W1 == update(Log(W, "info"))
        Arms(r) ==
              CASE r.result = "Ok" -> r.world
                [] r.result = "Lost" -> resize(r.world, Gfx(r.world).size)
                [] r.result = "OutOfMemory" -> Exit(Log(r.world, "error"))
                [] OTHER -> Log(r.world, "error")
        W2 == CHOOSE y \in {Arms(r) : r \in {render(W1, acq)}} : TRUE
    IN  IF acq = "Ok" THEN RequestRedraw(W2, Unwrap(W.state).window) ELSE W2

\* The redraw arm rendering again at once after recovering a lost surface.
redraw_RetryAfterLost(W, acq) ==
    LET W1 == update(Log(W, "info"))
        Arms(r) ==
              CASE r.result = "Ok" -> r.world
                [] r.result = "Lost" ->
                       render(resize(r.world, Gfx(r.world).size), acq).world
                [] r.result = "OutOfMemory" -> Exit(Log(r.world, "error"))
                [] OTHER -> Log(r.world, "error")
        W2 == CHOOSE y \in {Arms(r) : r \in {render(W1, acq)}} : TRUE
    IN  RequestRedraw(W2, Unwrap(W.state).window)

\* The redraw arm leaving the loop on every SurfaceError.
redraw_AnyErrorExits(W, acq) ==
    LET W1 == update(Log(W, "info"))
        Arms(r) ==
              CASE r.result = "Ok" -> r.world
                [] OTHER -> Exit(Log(r.world, "error"))
        W2 == CHOOSE y \in {Arms(r) : r \in {render(W1, acq)}} : TRUE
    IN  RequestRedraw(W2, Unwrap(W.state).window)

\* The redraw arm reconfiguring on Outdated as it does on Lost.
redraw_OutdatedReconfigures(W, acq) ==
    LET W1 == update(Log(W, "info"))
        Arms(r) ==
              CASE r.result = "Ok" -> r.world
                [] r.result \in {"Lost", "Outdated"} ->
                       resize(r.world, Gfx(r.world).size)
                [] r.result = "OutOfMemory" -> Exit(Log(r.world, "error"))
                [] OTHER -> Log(r.world, "error")
        W2 == CHOOSE y \in {Arms(r) : r \in {render(W1, acq)}} : TRUE
    IN  RequestRedraw(W2, Unwrap(W.state).window)

\* The RedrawRequested arm of Application::window_event.  render is called
\* once and the match (Arms) is on what it returned.
redraw(W, acq) ==
    LET W1 == update(Log(W, "info"))
        Arms(r) ==
              CASE r.result = "Ok" -> r.world
                [] r.result = "Lost" -> resize(r.world, Gfx(r.world).size)
                [] r.result = "OutOfMemory" -> Exit(Log(r.world, "error"))
                [] OTHER -> Log(r.world, "error")
        W2 == CHOOSE y \in {Arms(r) : r \in {render(W1, acq)}} : TRUE
    IN  RequestRedraw(W2, Unwrap(W.state).window)

\* window_event without the comparison of window ids at its head.
window_event_AnyWindow(W, window_id, event, acq) ==
    IF ~IsSome(W.state) THEN W
    ELSE IF ~input(W, event)
    THEN CASE event.kind = "CloseRequested"
                \/ (/\ event.kind = "KeyboardInput"
                    /\ event.key = "Escape"
                    /\ event.key_state = "Pressed") -> Exit(W)
           [] event.kind = "Resized" -> resize(W, event.size)
           [] event.kind = "ScaleFactorChanged" -> W
           [] event.kind = "RedrawRequested"
                /\ window_id = Unwrap(W.state).window -> redraw(W, acq)
           [] OTHER -> W
    ELSE W

\* window_event matching Escape whatever the key's ElementState.
window_event_AnyKeyState(W, window_id, event, acq) ==
    IF ~IsSome(W.state) THEN W
    ELSE IF window_id = Unwrap(W.state).window /\ ~input(W, event)
    THEN CASE event.kind = "CloseRequested"
                \/ (/\ event.kind = "KeyboardInput"
                    /\ event.key = "Escape") -> Exit(W)
           [] event.kind = "Resized" -> resize(W, event.size)
           [] event.kind = "ScaleFactorChanged" -> W
           [] event.kind = "RedrawRequested"
                /\ window_id = Unwrap(W.state).window -> redraw(W, acq)
           [] OTHER -> W
    ELSE W

\* Application::window_event
window_event(W, window_id, event, acq) ==
    IF ~IsSome(W.state) THEN W
    ELSE IF window_id = Unwrap(W.state).window /\ ~input(W, event)
    THEN CASE event.kind = "CloseRequested"
                \/ (/\ event.kind = "KeyboardInput"
                    /\ event.key = "Escape"
                    /\ event.key_state = "Pressed") -> Exit(W)
           [] event.kind = "Resized" -> resize(W, event.size)
           [] event.kind = "ScaleFactorChanged" -> W
           [] event.kind = "RedrawRequested"
                /\ window_id = Unwrap(W.state).window -> redraw(W, acq)
           [] OTHER -> W
    ELSE W

\* Application::device_event
device_event(W) == W

\* suspended releasing the pair, as a handler that frees GPU resources on
\* suspend would.
suspended_ReleasesPair(W) ==
    LET W1 == Log(W, "info")
    IN  IF IsSome(W1.state)
        THEN [DropWindowGfxState(W1, Unwrap(W1.state)) EXCEPT !.state = None]
        ELSE W1

\* suspended dropping the pending redraw, as a handler that pauses
\* rendering would.
suspended_StopsRedraw(W) == [Log(W, "info") EXCEPT !.redraw_requested = {}]

\* Application::suspended
suspended(W) == Log(W, "info")

\* Application::exiting
exiting(W) == Log(W, "info")

\* Application::memory_warning
memory_warning(W) == Log(W, "warn")

\* The end of run(): app goes out of scope and with it the pair, if any.
DropApplication(W) ==
    IF IsSome(W.state) THEN DropWindowGfxState(W, Unwrap(W.state)) ELSE W

(* ------------------------------- state -------------------------------- *)

VARIABLES
    state,              \* Application.state: Option<WindowGfxState>
    exit,               \* the event loop has been asked to exit
    strong,             \* strong count of each window's Arc
    windows,            \* platform windows that exist
    surfaces,           \* surfaces that exist, by the window they draw to
    configured,         \* what each surface was last configured with
    redraw_requested,   \* windows with a redraw request pending
    next_id,            \* the WindowId the platform hands out next
    ops,                \* the calls of the latest handler, in order
    last,               \* the latest callback and its arguments
    loop,               \* run(): "running", "exiting", "done"
    resized,            \* the latest positive-area size the live manager's
                        \* resize was called with, if any
    oom,                \* some render so far has met SurfaceError::OutOfMemory
    panicked            \* a handler has panicked

vars == <<state, exit, strong, windows, surfaces, configured,
          redraw_requested, next_id, ops, last, loop, resized, oom,
          panicked>>

\* The world a handler starts from: its call trace is empty.
World ==
    [state |-> state, exit |-> exit, strong |-> strong, windows |-> windows,
     surfaces |-> surfaces, configured |-> configured,
     redraw_requested |-> redraw_requested,
     next_id |-> next_id, panicked |-> panicked, ops |-> <<>>]

\* The resize calls of a trace that carry a positive area.
PositiveResizes(tr) ==
    SelectSeq(tr, LAMBDA c : c.op = "resize" /\ c.args[1] > 0 /\ c.args[2] > 0)

Callback(handler, window_id, event) ==
    [handler |-> handler, window_id |-> window_id, event |-> event]
NoEvent == Ev("none")

\* The handler named by cb ran and left the world W.
Ran(W, cb) ==
    /\ last' = cb
    /\ \E V \in {W} :
        /\ state' = V.state
        /\ exit' = V.exit
        /\ strong' = V.strong
        /\ windows' = V.windows
        /\ surfaces' = V.surfaces
        /\ configured' = V.configured
        /\ redraw_requested' = V.redraw_requested
        /\ next_id' = V.next_id
        /\ panicked' = V.panicked
        /\ ops' = V.ops
        /\ resized' = IF cb.handler = "resumed"
                      THEN IF V.panicked THEN resized ELSE None
                      ELSE LET pos == PositiveResizes(V.ops)
                           IN  IF pos = <<>> THEN resized
                               ELSE Some(Size(pos[Len(pos)].args[1],
                                              pos[Len(pos)].args[2]))
        /\ oom' = (oom \/ \E i \in 1..Len(V.ops) :
                              /\ V.ops[i].op = "get_current_texture"
                              /\ V.ops[i].ret = "OutOfMemory")

\* Application::default(), before run_app delivers anything.
Init ==
    /\ state = None
    /\ exit = FALSE
    /\ strong = [w \in WindowIds |-> 0]
    /\ windows = {}
    /\ surfaces = {}
    /\ configured = [w \in WindowIds |-> Size(0, 0)]
    /\ redraw_requested = {}
    /\ next_id = 1
    /\ ops = <<>>
    /\ last = Callback("none", 0, NoEvent)
    /\ loop = "running"
    /\ resized = None
    /\ oom = FALSE
    /\ panicked = FALSE

\* run_app calls the handlers until it calls exiting().  No handler looks
\* at the exit request, so events that reach one after exit() are handled
\* like any other.
Delivering == loop = "running" /\ ~panicked

\* The inner sizes that make a difference under the answers gpu: none when
\* GfxState::new stops before it configures (one size stands for all), all
\* of them otherwise.
InnerSizesUnder(gpu) ==
    IF ~(gpu.window /\ gpu.surface /\ gpu.suitable /\ gpu.device /\ gpu.formats)
    THEN {Size(0, 0)}
    ELSE InnerSizes

\* resumed is called.  The callback is recorded with the inner size of the
\* window the pair was built on, if one was built.
Resumed ==
    /\ Delivering
    /\ next_id <= MaxWindows
    /\ \E gpu \in Platforms :
        \E inner_size \in InnerSizesUnder(gpu) :
            \E V \in {resumed(World, inner_size, gpu)} :
                Ran(V, Callback("resumed", 0,
                                [NoEvent EXCEPT !.size = IF V.panicked THEN Size(0, 0)
                                                         ELSE inner_size]))
    /\ UNCHANGED loop

\* One window event reaches the handler.  A RedrawRequested uses up the
\* request pending for its window.
Deliver(window_id, event, acq) ==
    /\ Delivering
    /\ LET W == IF event.kind = "RedrawRequested"
                THEN [World EXCEPT !.redraw_requested = @ \ {window_id}]
                ELSE World
       IN  Ran(window_event(W, window_id, event, acq),
               Callback("window_event", window_id, event))
    /\ UNCHANGED loop

\* Any window event for any window, a redraw nobody asked for (an expose)
\* included.
WindowEvent ==
    \E window_id \in WindowIds, event \in WindowEvents :
        \E acq \in IF event.kind = "RedrawRequested" THEN AcquireResults ELSE {"Ok"} :
            Deliver(window_id, event, acq)

\* The platform answers a pending request_redraw.
RequestedRedraw ==
    \E window_id \in redraw_requested, acq \in AcquireResults :
        Deliver(window_id, Ev("RedrawRequested"), acq)

DeviceEvent ==
    /\ Delivering
    /\ Ran(device_event(World), Callback("device_event", 0, NoEvent))
    /\ UNCHANGED loop

Suspended ==
    /\ Delivering
    /\ Ran(suspended(World), Callback("suspended", 0, NoEvent))
    /\ UNCHANGED loop

MemoryWarning ==
    /\ Delivering
    /\ Ran(memory_warning(World), Callback("memory_warning", 0, NoEvent))
    /\ UNCHANGED loop

\* Once asked to exit, run_app at some point calls exiting(), the last
\* callback it makes.
Exiting ==
    /\ Delivering
    /\ exit
    /\ Ran(exiting(World), Callback("exiting", 0, NoEvent))
    /\ loop' = "exiting"

\* run_app returns and run() ends.
RunReturns ==
    /\ loop = "exiting"
    /\ Ran(DropApplication(World), Callback("drop", 0, NoEvent))
    /\ loop' = "done"

\* A panic in a handler unwinds through run_app and run(): app goes out of
\* scope, exiting() is not called.
Unwinds ==
    /\ loop = "running"
    /\ panicked
    /\ Ran(DropApplication(World), Callback("drop", 0, NoEvent))
    /\ loop' = "done"

Next ==
    \/ Resumed
    \/ WindowEvent
    \/ RequestedRedraw
    \/ DeviceEvent
    \/ Suspended
    \/ MemoryWarning
    \/ Exiting
    \/ RunReturns
    \/ Unwinds

Spec == Init /\ [][Next]_vars

\* A platform that answers every pending redraw request while the loop has
\* not been asked to exit.
FairSpec == Spec /\ WF_vars(~exit /\ RequestedRedraw)

(* ----------------------------- properties ----------------------------- *)

\* The live window and its manager (only used where state is Some).
Live == Unwrap(state).window
Manager == Unwrap(state).gfx_state
\* The application holds a pair and has not been dropped.
Initialized == IsSome(state) /\ loop # "done"

Positive(s) == s.width > 0 /\ s.height > 0
Dims(s) == <<s.width, s.height>>
Has(tr, op) == \E i \in 1..Len(tr) : tr[i].op = op
\* The calls of a trace that act on the surface.
SurfaceCalls(tr) ==
    SelectSeq(tr, LAMBDA c : c.op \in {"configure", "get_current_texture", "present"})
\* The latest callback was this window event, and it was for the live window.
LiveEvent(cb) ==
    /\ cb.handler = "window_event"
    /\ IsSome(state)
    /\ cb.window_id = Live

\* C1: once the manager's resize has been called with a positive area, the
\* stored size, the configuration's width and height and what the surface
\* was last configured with are the arguments of the latest such call, and
\* every such call configures the surface with its own arguments right away
\* (so a repeated call leaves size and configuration as they are).
C1_LatestPositiveResize ==
    /\ (Initialized /\ IsSome(resized)) =>
          /\ Manager.size = Unwrap(resized)
          /\ Manager.config = Unwrap(resized)
          /\ configured[Manager.surface] = Unwrap(resized)
    /\ \A i \in 1..Len(ops) :
          (ops[i].op = "resize" /\ ops[i].args[1] > 0 /\ ops[i].args[2] > 0) =>
              /\ i < Len(ops)
              /\ ops[i + 1] = Call("configure", ops[i].args, "")

\* A Resized event of unequal positive sides has just been applied to the
\* live manager.
C1_Witness ==
    /\ Initialized
    /\ LiveEvent(last)
    /\ last.event = Resized(Size(2, 1))
    /\ resized = Some(Size(2, 1))
    /\ Manager.size = Size(2, 1)
    /\ ops = <<Call("resize", <<2, 1>>, ""), Call("configure", <<2, 1>>, "")>>

\* C2: a Resized event with a zero width or height changes neither the
\* stored size nor the configuration nor what the surface is configured
\* with and configures nothing; and every image is acquired at the stored
\* configuration, so the next redraw uses the one in force before.
C2_ZeroAreaIgnored ==
    [][/\ (last'.handler = "window_event" /\ last'.event.kind = "Resized"
             /\ ~Positive(last'.event.size)) =>
              /\ state' = state
              /\ configured' = configured
              /\ ~Has(ops', "configure")
       /\ \A i \in 1..Len(ops') :
              ops'[i].op = "get_current_texture" =>
                  /\ IsSome(state)
                  /\ ops'[i].args = Dims(Manager.config)
                  /\ ops'[i].args = Dims(configured[Manager.surface])]_vars

\* A zero-width Resized event has just reached the live manager.
C2_Witness ==
    /\ Initialized
    /\ LiveEvent(last)
    /\ last.event = Resized(Size(0, 1))
    /\ ops = <<Call("resize", <<0, 1>>, "")>>
    /\ Positive(Manager.size)

\* C3: when get_current_texture answers Lost, the next call on the surface
\* is a configure at the size stored when the handler began, which is the
\* size of the latest positive-area resize if there was one; no image is
\* acquired in between.
C3_LostReconfigures ==
    [][LET sc == SurfaceCalls(ops')
       IN  \A i \in 1..Len(sc) :
               (sc[i].op = "get_current_texture" /\ sc[i].ret = "Lost") =>
                   /\ IsSome(state)
                   /\ i < Len(sc)
                   /\ sc[i + 1] = Call("configure", Dims(Manager.size), "")
                   /\ IsSome(resized) => sc[i + 1].args = Dims(Unwrap(resized))]_vars

\* A redraw has just met a lost surface after a resize to 1 x 2 and has
\* configured it anew at 1 x 2.
C3_Witness ==
    /\ Initialized
    /\ LiveEvent(last)
    /\ last.event.kind = "RedrawRequested"
    /\ \E i \in 1..(Len(ops) - 1) :
           /\ ops[i].op = "get_current_texture"
           /\ ops[i].ret = "Lost"
           /\ ops[i + 1].op = "resize"
    /\ Has(ops, "configure")
    /\ resized = Some(Size(1, 2))
    /\ Manager.size = Size(1, 2)
    /\ configured[Manager.surface] = Size(1, 2)

\* C4: when get_current_texture answers OutOfMemory the handler asks the
\* loop to exit before it returns; from then on exit stays asked for and
\* no handler calls render, whatever event it is given.
C4_OutOfMemoryExits ==
    [][/\ \A i \in 1..Len(ops') :
              (ops'[i].op = "get_current_texture" /\ ops'[i].ret = "OutOfMemory") =>
                  /\ exit'
                  /\ \E j \in (i + 1)..Len(ops') : ops'[j] = Call("exit", <<>>, "")
       /\ oom => /\ exit
                 /\ exit'
                 /\ ~Has(ops', "render")
                 /\ ~Has(ops', "get_current_texture")]_vars

\* What a window event for another window must leave alone.
HandlerEffects ==
    <<state, exit, strong, windows, surfaces, configured, redraw_requested>>

\* C5: a window event whose window id is not the live window's changes
\* nothing and makes no call: no render, configure, request_redraw or exit.
C5_OtherWindowIgnored ==
    [][(last'.handler = "window_event" /\ IsSome(state) /\ last'.window_id # Live) =>
           /\ UNCHANGED HandlerEffects
           /\ ops' = <<>>]_vars

\* A close request for a window that is not the live one has just been
\* handled, and the loop runs on.
C5_Witness ==
    /\ Initialized
    /\ last.handler = "window_event"
    /\ last.window_id # Live
    /\ last.event.kind = "CloseRequested"
    /\ ~exit
    /\ ops = <<>>

\* C6: for the live window, a close request or an Escape press asks the
\* loop to exit; an Escape release, or any event of another key, asks for
\* nothing and changes nothing.
C6_EscapePressOnly ==
    [][(last'.handler = "window_event" /\ IsSome(state) /\ last'.window_id = Live) =>
           LET e == last'.event
           IN  /\ (e.kind = "CloseRequested" \/ e = KeyboardInput("Escape", "Pressed")) =>
                      /\ exit'
                      /\ ops' = <<Call("exit", <<>>, "")>>
               /\ (e.kind = "KeyboardInput" /\ e # KeyboardInput("Escape", "Pressed")) =>
                      /\ UNCHANGED HandlerEffects
                      /\ ops' = <<>>]_vars

\* An Escape release has just reached the live window and the loop runs on.
C6_Witness ==
    /\ Initialized
    /\ LiveEvent(last)
    /\ last.event = KeyboardInput("Escape", "Released")
    /\ ~exit
    /\ ops = <<>>

\* C7: a surface that exists draws to a window that exists and is held by
\* at least one Arc, and whenever a handler drops a window it has dropped
\* that window's surface before, unless the window was made in this very
\* handler and never got a surface.
C7_WindowOutlivesSurface ==
    /\ surfaces \subseteq windows
    /\ \A w \in surfaces : strong[w] >= 1
    /\ \A i \in 1..Len(ops) :
           ops[i].op = "drop_window" =>
               \/ \E j \in 1..(i - 1) : ops[j] = Call("drop_surface", ops[i].args, "")
               \/ /\ \E j \in 1..(i - 1) : ops[j] = Call("create_window", ops[i].args, "")
                  /\ \A j \in 1..(i - 1) : ops[j] # Call("create_surface", ops[i].args, "")

\* A second resumed has just replaced the pair: the old surface and window
\* are gone, the new ones exist.
C7_Witness ==
    /\ Initialized
    /\ last.handler = "resumed"
    /\ Has(ops, "drop_surface")
    /\ Has(ops, "drop_window")
    /\ windows = {Live}
    /\ surfaces = {Live}

\* C8: the application starts without a pair and stays without one until
\* resumed runs; a window event that finds no pair changes nothing and
\* makes no call; resumed leaves exactly one pair, and no handler ever
\* takes the pair away again.
C8_PairFromFirstResumed ==
    /\ state = None
    /\ [][/\ (state = None /\ last'.handler # "resumed") => state' = None
          /\ (state = None /\ last'.handler = "window_event") =>
                 /\ UNCHANGED HandlerEffects
                 /\ ops' = <<>>
          /\ (last'.handler = "resumed" /\ ~panicked') => Len(state') = 1
          /\ IsSome(state) => Len(state') = 1]_vars

\* The pair has survived a suspended signal.
C8_Witness ==
    /\ IsSome(state)
    /\ last.handler = "suspended"
    /\ windows = {Live}
    /\ surfaces = {Live}

\* The manager operations and the redraw request among a handler's calls.
FrameCalls(tr) ==
    SelectSeq(tr, LAMBDA c : c.op \in {"update", "render", "request_redraw", "exit"})

\* C9: a RedrawRequested for the live window calls update, then render,
\* then request_redraw on the live window, once each and whatever render
\* returned, so the request is pending when the handler returns; and with
\* a platform that answers pending requests, no request stays pending for
\* ever without a render call while the loop runs.
C9_RedrawCycle ==
    /\ [](LiveEvent(last) /\ last.event.kind = "RedrawRequested" =>
            LET fc == SelectSeq(FrameCalls(ops), LAMBDA c : c.op # "exit")
            IN  /\ fc = <<Call("update", <<>>, ""), Call("render", <<>>, ""),
                          Call("request_redraw", <<Live>>, "")>>
                /\ ops[Len(ops)] = Call("request_redraw", <<Live>>, "")
                /\ Len(SelectSeq(ops, LAMBDA c : c.op = "get_current_texture")) = 1
                /\ Live \in redraw_requested)
    /\ []<>(\/ ~(Delivering /\ ~exit /\ redraw_requested # {})
            \/ /\ last.handler = "window_event"
               /\ last.event.kind = "RedrawRequested"
               /\ Has(ops, "render"))

\* A redraw whose image acquisition timed out has left a request pending.
C9_Witness ==
    /\ Initialized
    /\ LiveEvent(last)
    /\ last.event.kind = "RedrawRequested"
    /\ \E i \in 1..Len(ops) : ops[i].op = "get_current_texture" /\ ops[i].ret = "Timeout"
    /\ Live \in redraw_requested
    /\ ~exit

\* What a render does to the surface, the pass and the queue.
GpuCalls(tr) ==
    SelectSeq(tr, LAMBDA c : c.op \in {"get_current_texture", "begin_render_pass",
                                       "set_pipeline", "set_vertex_buffer",
                                       "set_index_buffer", "draw", "end_render_pass",
                                       "submit", "present", "configure"})

\* C10: a render whose image acquisition succeeds makes, in this order and
\* once each, the acquisition, a pass cleared to (0.1, 0.2, 0.3, 1.0), the
\* pipeline binding, a draw of vertices 0..3 and instances 0..1 with no
\* vertex or index buffer, the submission and the present; stored size,
\* configuration and the surface's configuration stay as they were.
C10_SuccessfulRender ==
    [][\A i \in 1..Len(ops') :
           (ops'[i].op = "get_current_texture" /\ ops'[i].ret = "Ok") =>
               /\ GpuCalls(ops') =
                      <<ops'[i],
                        Call("begin_render_pass", <<1, 2, 3, 10>>, ""),
                        Call("set_pipeline", <<>>, ""),
                        Call("draw", <<0, 3, 0, 1>>, ""),
                        Call("end_render_pass", <<>>, ""),
                        Call("submit", <<>>, ""),
                        Call("present", <<>>, "")>>
               /\ state' = state
               /\ configured' = configured]_vars

\* A frame has just been rendered and presented at 2 x 1.
C10_Witness ==
    /\ Initialized
    /\ LiveEvent(last)
    /\ last.event.kind = "RedrawRequested"
    /\ Has(ops, "present")
    /\ Has(ops, "draw")
    /\ Manager.size = Size(2, 1)
    /\ configured[Manager.surface] = Size(2, 1)

\* The latest handler's get_current_texture answered one of these.
Acquired(tr, results) ==
    \E i \in 1..Len(tr) : tr[i].op = "get_current_texture" /\ tr[i].ret \in results

\* C11 as stated: the loop is asked to exit only by a close request for
\* the live window or by a render that ran out of memory.
C11_ExitOnlyCloseOrOom ==
    [][(exit' # exit \/ Has(ops', "exit")) =>
           \/ /\ last'.handler = "window_event"
              /\ IsSome(state)
              /\ last'.window_id = Live
              /\ last'.event.kind = "CloseRequested"
           \/ Acquired(ops', {"OutOfMemory"})]_vars

\* C11, amended: the exit flag changes only through event_loop.exit(),
\* and exit is called only for the live window, on a close request, on an
\* Escape key press, or in a redraw whose render ran out of memory.
C11_ExitCauses ==
    [][(exit' # exit \/ Has(ops', "exit")) =>
           /\ exit'
           /\ Has(ops', "exit")
           /\ last'.handler = "window_event"
           /\ IsSome(state)
           /\ last'.window_id = Live
           /\ \/ last'.event.kind = "CloseRequested"
              \/ last'.event = KeyboardInput("Escape", "Pressed")
              \/ /\ last'.event.kind = "RedrawRequested"
                 /\ Acquired(ops', {"OutOfMemory"})]_vars

\* An Escape press on the live window has just asked the loop to exit.
C11_Witness ==
    /\ Initialized
    /\ LiveEvent(last)
    /\ last.event = KeyboardInput("Escape", "Pressed")
    /\ exit
    /\ ops = <<Call("exit", <<>>, "")>>
    /\ loop = "running"

\* C12: when get_current_texture answers Timeout, Outdated or Other, the
\* handler logs the error and does nothing else: the pair, the stored size
\* and configuration and the surface's configuration are unchanged, no
\* configure and no exit is called, and the next redraw is requested.
C12_OtherErrorsLogged ==
    [][Acquired(ops', {"Timeout", "Outdated", "Other"}) =>
           /\ IsSome(state)
           /\ state' = state
           /\ configured' = configured
           /\ exit' = exit
           /\ ~Has(ops', "exit")
           /\ Len(ops') = 6
           /\ <<ops'[1], ops'[2], ops'[3]>> =
                  <<Call("log", <<>>, "info"), Call("update", <<>>, ""),
                    Call("render", <<>>, "")>>
           /\ ops'[4].op = "get_current_texture"
           /\ <<ops'[5], ops'[6]>> =
                  <<Call("log", <<>>, "error"), Call("request_redraw", <<Live>>, "")>>
           /\ Live \in redraw_requested']_vars

\* A redraw has just met an outdated surface; the loop runs on with the
\* next redraw requested.
C12_Witness ==
    /\ Initialized
    /\ LiveEvent(last)
    /\ last.event.kind = "RedrawRequested"
    /\ Acquired(ops, {"Outdated"})
    /\ ~Has(ops, "configure")
    /\ ~exit
    /\ Live \in redraw_requested

\* C13: whenever resize goes on to configure the surface, from a Resized
\* event or from the recovery of a lost surface, the width and height it
\* configures with, and those of the stored configuration, are positive.
C13_PositiveBeforeConfigure ==
    \A i \in 2..Len(ops) :
        (ops[i].op = "configure" /\ ops[i - 1].op = "resize") =>
            /\ ops[i].args[1] > 0
            /\ ops[i].args[2] > 0
            /\ Initialized
            /\ Manager.config.width > 0
            /\ Manager.config.height > 0
            /\ Positive(configured[Manager.surface])

\* The recovery of a lost surface has just reconfigured it at 2 x 2.
C13_Witness ==
    /\ Initialized
    /\ Acquired(ops, {"Lost"})
    /\ \E i \in 2..Len(ops) :
           /\ ops[i] = Call("configure", <<2, 2>>, "")
           /\ ops[i - 1] = Call("resize", <<2, 2>>, "")

\* The calls of one name among a handler's calls.
CallsOf(tr, op) == SelectSeq(tr, LAMBDA c : c.op = op)

\* C14: one handler calls render, and so get_current_texture, at most
\* once; after an acquisition that failed the handler acquires nothing
\* more.
C14_OneRenderPerHandler ==
    /\ Len(CallsOf(ops, "render")) <= 1
    /\ Len(CallsOf(ops, "get_current_texture")) <= 1
    /\ \A i \in 1..Len(ops) :
           (ops[i].op = "get_current_texture" /\ ops[i].ret \in SurfaceErrors) =>
               \A j \in (i + 1)..Len(ops) :
                   ops[j].op \notin {"render", "get_current_texture", "present"}

\* A redraw whose acquisition failed with Other has returned after its one
\* render call.
C14_Witness ==
    /\ Initialized
    /\ LiveEvent(last)
    /\ last.event.kind = "RedrawRequested"
    /\ Acquired(ops, {"Other"})
    /\ Len(CallsOf(ops, "render")) = 1
    /\ Len(CallsOf(ops, "get_current_texture")) = 1

\* C15: a frame's image is acquired at the surface configuration in force
\* when its redraw event arrives, which is that of the latest positive-area
\* resize handled before it (the window's initial size if there was none),
\* and nothing configures the surface between the acquisition and the
\* present.
C15_FrameUsesLatestResize ==
    [][\A i \in 1..Len(ops') :
           ops'[i].op = "get_current_texture" =>
               /\ IsSome(state)
               /\ ops'[i].args = Dims(configured[Manager.surface])
               /\ ops'[i].args = Dims(Manager.size)
               /\ IsSome(resized) => ops'[i].args = Dims(Unwrap(resized))
               /\ \A j \in 1..Len(ops') :
                      ops'[j].op = "present" =>
                          /\ j > i
                          /\ \A k \in 1..j : ops'[k].op # "configure"]_vars

\* A frame has just been presented at 1 x 2, the size of the latest resize.
C15_Witness ==
    /\ Initialized
    /\ LiveEvent(last)
    /\ last.event.kind = "RedrawRequested"
    /\ resized = Some(Size(1, 2))
    /\ \E i \in 1..Len(ops) : ops[i] = Call("get_current_texture", <<1, 2>>, "Ok")
    /\ Has(ops, "present")

\* C16: suspended only logs: the pair, the exit flag, the windows and
\* surfaces, the surface's configuration and the pending redraw are as
\* before; and the window event that follows it is handled as ever: a
\* redraw renders, a positive resize is applied, a close request exits.
C16_SuspendedChangesNothing ==
    [][/\ last'.handler = "suspended" =>
              /\ UNCHANGED HandlerEffects
              /\ UNCHANGED <<loop, next_id, resized>>
              /\ ops' = <<Call("log", <<>>, "info")>>
       /\ (/\ last.handler = "suspended"
           /\ last'.handler = "window_event"
           /\ IsSome(state)
           /\ last'.window_id = Live) =>
              LET e == last'.event
              IN  /\ e.kind = "RedrawRequested" =>
                         /\ Has(ops', "update")
                         /\ Has(ops', "render")
                         /\ Live \in redraw_requested'
                  /\ (e.kind = "Resized" /\ Positive(e.size)) =>
                         /\ Unwrap(state').gfx_state.size = e.size
                         /\ configured'[Live] = e.size
                  /\ e.kind = "CloseRequested" => exit']_vars

\* The application has just been suspended with a redraw pending and a
\* resize behind it; the pair is as it was.
C16_Witness ==
    /\ Initialized
    /\ last.handler = "suspended"
    /\ ops = <<Call("log", <<>>, "info")>>
    /\ Live \in redraw_requested
    /\ IsSome(resized)
    /\ Manager.size = Unwrap(resized)
    /\ ~exit

\* C17: whenever the application holds a manager, its configuration's
\* width and height are its stored size's; and the two change only in
\* resumed, which builds the manager, and in a handler that configures the
\* surface through an accepted resize.
C17_ConfigMatchesSize ==
    [][/\ Initialized' =>
              /\ Dims(Unwrap(state').gfx_state.config) = Dims(Unwrap(state').gfx_state.size)
              /\ configured'[Unwrap(state').gfx_state.surface] = Unwrap(state').gfx_state.size
       /\ (/\ IsSome(state)
           /\ IsSome(state')
           /\ \/ Unwrap(state').gfx_state.size # Manager.size
              \/ Dims(Unwrap(state').gfx_state.config) # Dims(Manager.config)) =>
              \/ last'.handler = "resumed"
              \/ /\ PositiveResizes(ops') # <<>>
                 /\ Has(ops', "configure")
                 /\ Unwrap(state').gfx_state.size = Unwrap(resized')]_vars

\* A resize to 1 x 2 has just been applied to a manager built at another
\* size: size and configuration are both 1 x 2.
C17_Witness ==
    /\ Initialized
    /\ LiveEvent(last)
    /\ last.event.kind = "Resized"
    /\ last.event.size = Size(1, 2)
    /\ Manager.size = Size(1, 2)
    /\ Dims(Manager.config) = <<1, 2>>
    /\ configured[Manager.surface] = Size(1, 2)

\* C18: resumed with a pair in hand builds a new window and manager and
\* drops the old ones: afterwards the only window and surface are the new
\* ones, the stored size is the new window's inner size, and an event for
\* any other window, the old one included, changes nothing.
C18_ResumedReplacesPair ==
    [][/\ (last'.handler = "resumed" /\ IsSome(state) /\ ~panicked') =>
              /\ IsSome(state')
              /\ Unwrap(state').window # Live
              /\ Live \notin windows'
              /\ Live \notin surfaces'
              /\ Unwrap(state').gfx_state.size = last'.event.size
              /\ configured'[Unwrap(state').window] = last'.event.size
              /\ resized' = None
       /\ Initialized' =>
              /\ windows' = {Unwrap(state').window}
              /\ surfaces' = {Unwrap(state').gfx_state.surface}
              /\ Unwrap(state').gfx_state.surface = Unwrap(state').window
       /\ (/\ last'.handler = "window_event"
           /\ IsSome(state)
           /\ last'.window_id # Live) =>
              /\ UNCHANGED HandlerEffects
              /\ UNCHANGED resized]_vars

\* A second resumed has just replaced window 1, resized to 1 x 1 before,
\* by window 2 of inner size 1 x 2.
C18_Witness ==
    /\ Initialized
    /\ last.handler = "resumed"
    /\ last.event.size = Size(1, 2)
    /\ Has(ops, "drop_window")
    /\ Live = 2
    /\ windows = {2}
    /\ surfaces = {2}
    /\ Manager.size = Size(1, 2)

\* C19: when get_current_texture fails, render makes no further call: no
\* view, encoder, pass, draw, submit or present; the manager and the
\* surface's configuration are as before the handler; and the caller is
\* given the error: Lost is followed by resize, OutOfMemory by the error
\* log and the exit request, any other by the error log alone.
C19_FailedAcquireReturnsError ==
    [][\A i \in 1..Len(ops') :
           (ops'[i].op = "get_current_texture" /\ ops'[i].ret \in SurfaceErrors) =>
               /\ \A j \in 1..Len(ops') :
                      ops'[j].op \notin {"create_view", "create_command_encoder",
                                         "begin_render_pass", "set_pipeline", "draw",
                                         "end_render_pass", "submit", "present"}
               /\ state' = state
               /\ configured' = configured
               /\ i < Len(ops')
               /\ ops'[i].ret = "Lost" =>
                      ops'[i + 1] = Call("resize", Dims(Manager.size), "")
               /\ ops'[i].ret = "OutOfMemory" =>
                      ops'[i + 1] = Call("log", <<>>, "error") /\ exit'
               /\ ops'[i].ret \notin {"Lost", "OutOfMemory"} =>
                      ops'[i + 1] = Call("log", <<>>, "error") /\ exit' = exit]_vars

\* An acquisition has just timed out on a 2 x 1 surface: nothing was
\* submitted and the manager is still 2 x 1.
C19_Witness ==
    /\ Initialized
    /\ LiveEvent(last)
    /\ Acquired(ops, {"Timeout"})
    /\ ~Has(ops, "begin_render_pass")
    /\ ~Has(ops, "submit")
    /\ ~Has(ops, "present")
    /\ Manager.size = Size(2, 1)
    /\ configured[Manager.surface] = Size(2, 1)

====
